---- MODULE Spec2Model ----
(***************************************************************************)
(* web-stream-tools: the Reader (a push-back reader over a web stream, a   *)
(* node stream or a single value) and the nodeToWeb adapter it uses.       *)
(*                                                                         *)
(* A JavaScript value is a record [t, d]: t is "str" (a string), "u8" (a   *)
(* Uint8Array), "num" (a number) or "undef" (undefined); d is its units    *)
(* (character codes, bytes), kept as integers so that values of different  *)
(* types can be compared.                                                  *)
(*                                                                         *)
(* The callers of one Reader serialize their calls (every call is awaited  *)
(* before the next), so each Reader operation is one action; the events of *)
(* a node stream that happen between two calls are actions of their own.   *)
(*                                                                         *)
(* The two adapters, nodeToWeb and NodeReadable (webToNode), are modelled  *)
(* in one chain: a node stream, the ReadableStream nodeToWeb makes of it,  *)
(* and the NodeReadable that drains that stream for a consumer downstream. *)
(* An action of the chain is what runs between two suspension points: an   *)
(* event handler, a call, or the continuation of an await.                 *)
(***************************************************************************)
EXTENDS Integers, Sequences, FiniteSets, TLC

\* The most units (characters, bytes) an input holds.
MaxUnits == 3
\* The most Readers constructed, one after the other, over the input.
MaxReaders == 2
\* The most calls made on a Reader after its release.
MaxStale == 1
\* The most cancel() calls made on one NodeReadable.
MaxCancels == 2
\* The chunks the consumer downstream buffers before push() returns false.
HighWaterMark == 2
\* The high water mark of a ReadableStream made without a strategy.
StreamHighWaterMark == 1

\* '\n', the character readLine looks for.
NewlineChar == 10
\* ',', the separator of a typed array's string form, and '0'.
CommaChar == 44
DigitZero == 48
\* The characters of the model's strings: '\n' and 'a'.
TextAlphabet == {NewlineChar, 97}

VARIABLES
  input,          \* the value given to Reader(): [kind, t, chunks], never changed
  rdBuf,          \* this[externalBuffer] of the current Reader: [has, buf]
  doneReading,    \* the closure variable of a single value's _read
  src,            \* the chunks the stream has not yet delivered
  queue,          \* node: the queue of the current nodeToWeb ReadableStream
  resumed,        \* node: the node stream is flowing (resume() was called)
  closed,         \* node: the current ReadableStream was closed by 'end'
  ended,          \* node: the node stream has emitted 'end'
  doneReadingSet, \* whether the module's doneReadingSet holds the input
  inputBuf,       \* input[externalBuffer]: [has, buf]
  shared,         \* input[externalBuffer] and this[externalBuffer] are one array
  phase,          \* "active": the Reader holds the lock; "released"
  readers,        \* how many Readers were constructed so far
  lastOp,         \* history: the last operation
  lastArg,        \* history: its numeric argument
  lastRes,        \* history: the value it returned
  lastPulls,      \* history: how often it called this._read
  lastC,          \* history: the chunks the last unshift was given
  got,            \* history: the chunks of the latest consecutive read() calls
  consumed,       \* history: the units returned to the caller and not pushed back
  coerced,        \* history: readLine has turned a byte chunk into text
  staleUsed,      \* history: how many calls were made on a released Reader
  threw,          \* history: releaseLock() has thrown
  exhausted,      \* history: the last released Reader had read a single value to the end
  relSnap,        \* history: this[externalBuffer] at the last releaseLock()
  afterEvent,     \* history: the last step was an event of the node stream
  errored,        \* node: the ReadableStream was errored by 'error'
  closeReq,       \* node: the controller was closed with chunks still queued
  started,        \* node: the ReadableStream's start() has settled
  pc,             \* the reader's read(): "none", "await" (pending), "got" (settled)
  res,            \* the result the settled read() resolved to
  hasCancel,      \* the node stream has a cancel method
  destroyed,      \* the node stream has emitted 'error'
  reading,        \* NodeReadable._reading
  cancelling,     \* NodeReadable._cancelling
  loopsStarted,   \* how many doRead loops were started (_doneReadingPromise is the last)
  loopsFinished,  \* how many of them have returned
  cancelQ,        \* the cancel() calls waiting, each with the loop it awaits
  cancelCalls,    \* how many cancel() calls were made
  locked,         \* the reader of NodeReadable holds the ReadableStream's lock
  dbuf,           \* the chunks pushed downstream and not yet consumed
  nPull,          \* history: how often pull() was called
  nResume,        \* history: how often nodeStream.resume() was called
  nPause,         \* history: how often nodeStream.pause() was called
  enq,            \* history: the chunks enqueued since the last pull()
  cancelFwd,      \* history: how often nodeStream.cancel(reason) was called
  late,           \* history: a controller method was called on a closed or errored stream
  pushed,         \* history: the chunks pushed downstream
  nEnd,           \* history: how often push(null) was called
  nErr,           \* history: how often 'error' was emitted downstream
  pushThrew,      \* history: a push() has thrown
  stopped,        \* history: why the last doRead loop returned
  relPending,     \* history: the lock was released with a read() pending
  cancelsDone,    \* history: how many cancel() calls have run to their end
  cancelRes,      \* history: how the last of them settled
  firstCancel     \* history: what the node stream and the adapters showed after the first

prog == <<input, rdBuf, doneReading, src, queue, resumed, closed, ended,
          doneReadingSet, inputBuf, shared, phase, readers>>
hist == <<lastOp, lastArg, lastRes, lastPulls, lastC, got, consumed, coerced,
          staleUsed, threw, exhausted, relSnap, afterEvent>>
\* The state of the two adapters and of the streams around them.
bridge == <<errored, closeReq, started, pc, res, hasCancel, destroyed, reading,
            cancelling, loopsStarted, loopsFinished, cancelQ, cancelCalls,
            locked, dbuf>>
bridgeHist == <<nPull, nResume, nPause, enq, cancelFwd, late, pushed, nEnd, nErr,
                pushThrew, stopped, relPending, cancelsDone, cancelRes,
                firstCancel>>
vars == <<prog, hist, bridge, bridgeHist>>

----------------------------------------------------------------------------
\* JavaScript values

Undefined == [t |-> "undef", d |-> <<>>]
Str(d) == [t |-> "str", d |-> d]
U8(d) == [t |-> "u8", d |-> d]
Num(n) == [t |-> "num", d |-> <<n>>]

NoBuf == [has |-> FALSE, buf |-> <<>>]

RECURSIVE Flat(_)
\* The units of a sequence of chunks, in order.
Flat(chunks) ==
  IF chunks = <<>> THEN <<>> ELSE Head(chunks).d \o Flat(Tail(chunks))

Min(a, b) == IF a < b THEN a ELSE b

\* value.length of a string or typed array.
Length(v) == Len(v.d)

RECURSIVE Digits(_)
\* The decimal digits of a byte, as characters.
Digits(n) ==
  IF n < 10 THEN <<DigitZero + n>>
  ELSE Digits(n \div 10) \o <<DigitZero + (n % 10)>>

RECURSIVE JoinBytes(_)
\* Uint8Array.prototype.toString: the elements in decimal, joined by ','.
JoinBytes(d) ==
  IF d = <<>> THEN <<>>
  ELSE IF Len(d) = 1 THEN Digits(d[1])
  ELSE Digits(d[1]) \o <<CommaChar>> \o JoinBytes(Tail(d))

\* value += '' (readLine): a string stays, a typed array becomes its string form.
ToText(v) == IF v.t = "str" THEN v ELSE Str(JoinBytes(v.d))

\* streams.concat: the chunks joined into one of the first chunk's type;
\* a list of one element is that element (concatUint8Array).
Concat(list) == [t |-> list[1].t, d |-> Flat(list)]

\* streams.slice(value, begin, end) and String.prototype.substr(begin, length).
Slice(v, begin, end) == [t |-> v.t, d |-> SubSeq(v.d, begin + 1, Min(end, Len(v.d)))]
SliceFrom(v, begin) == Slice(v, begin, Len(v.d))

\* String.prototype.indexOf: the 0-based index of the first c, or -1.
IndexOf(d, c) ==
  IF \E i \in 1..Len(d) : d[i] = c
  THEN (CHOOSE i \in 1..Len(d) : d[i] = c /\ \A j \in 1..(i - 1) : d[j] # c) - 1
  ELSE -1

\* value[0]: a one-character string, a number, or undefined.
First(v) ==
  IF Len(v.d) = 0 THEN Undefined
  ELSE IF v.t = "str" THEN Str(<<v.d[1]>>) ELSE Num(v.d[1])

\* A primitive string has no identity and takes no properties; a stream or a
\* typed array is an object.
IsPrimitive == input.kind = "value" /\ input.t = "str"

----------------------------------------------------------------------------
\* The Reader's operations, as functions of the state they read and write:
\* s = [has, buf, doneReading, src, queue, resumed, closed, ended, pulls,
\*      blocked, coerced]; each returns [s, value] or [s, value, done].

\* The state the current Reader works on.
State ==
  [has |-> rdBuf.has, buf |-> rdBuf.buf, doneReading |-> doneReading,
   src |-> src, queue |-> queue, resumed |-> resumed, closed |-> closed,
   ended |-> ended, pulls |-> 0, blocked |-> FALSE, coerced |-> coerced]

\* this._read of a single value: the value once, then done.
ValueRead(s) ==
  IF s.doneReading \/ doneReadingSet
  THEN [s |-> s, value |-> Undefined, done |-> TRUE]
  ELSE [s |-> [s EXCEPT !.doneReading = TRUE], value |-> input.chunks[1],
        done |-> FALSE]

\* this._read of a web stream: reader.read() of the stream's own reader, awaited.
WebRead(s) ==
  IF s.src = <<>>
  THEN [s |-> s, value |-> Undefined, done |-> TRUE]
  ELSE [s |-> [s EXCEPT !.src = Tail(s.src)], value |-> Head(s.src), done |-> FALSE]

\* this._read of a node stream: reader.read() of the ReadableStream nodeToWeb
\* made, awaited. The stream calls pull() (resume) whenever its queue is empty;
\* a resumed node stream emits one chunk ('data': enqueue, pause) or 'end'
\* (close). A chunk enqueued for a pending read() leaves the queue empty, so
\* enqueue calls pull() (resume) and the handler's pause() follows it. A
\* ReadableStream made after the node stream's 'end' never hears of it: its
\* read() stays pending (blocked).
NodeRead(s) ==
  IF s.queue # <<>>
    THEN [s |-> [s EXCEPT !.queue = Tail(s.queue),
                          !.resumed = (Len(s.queue) = 1 /\ ~s.ended) \/ s.resumed],
          value |-> Head(s.queue), done |-> FALSE]
  ELSE IF s.closed
    THEN [s |-> s, value |-> Undefined, done |-> TRUE]
  ELSE IF s.ended
    THEN [s |-> [s EXCEPT !.blocked = TRUE], value |-> Undefined, done |-> TRUE]
  ELSE IF s.src # <<>>
    THEN [s |-> [s EXCEPT !.src = Tail(s.src), !.resumed = FALSE],
          value |-> Head(s.src), done |-> FALSE]
  ELSE [s |-> [s EXCEPT !.closed = TRUE, !.ended = TRUE, !.resumed = FALSE],
        value |-> Undefined, done |-> TRUE]

\* this._read(), counted.
Pull(s) ==
  LET c == [s EXCEPT !.pulls = s.pulls + 1] IN
  CASE input.kind = "value" -> ValueRead(c)
    [] input.kind = "web" -> WebRead(c)
    [] input.kind = "node" -> NodeRead(c)

\* read() with the order of its two branches swapped: the source first, the
\* buffer once the source is done.
Read_SourceFirst(s) ==
  IF Pull(s).done /\ s.has /\ Len(s.buf) > 0
  THEN [s |-> [s EXCEPT !.buf = Tail(s.buf)], value |-> Head(s.buf), done |-> FALSE]
  ELSE Pull(s)

\* Reader.prototype.read
Read(s) ==
  IF s.has /\ Len(s.buf) > 0
  THEN [s |-> [s EXCEPT !.buf = Tail(s.buf)], value |-> Head(s.buf), done |-> FALSE]
  ELSE Pull(s)

\* value && value.length, the filter of unshift.
Kept(v) == v.t \in {"str", "u8"} /\ Len(v.d) > 0

\* unshift() with Array.prototype.push in the place of unshift: the values go
\* behind the buffered chunks.
Unshift_Back(s, values) ==
  [s EXCEPT !.has = TRUE, !.buf = s.buf \o SelectSeq(values, Kept)]

\* unshift() without its filter: every value goes into the buffer.
Unshift_NoFilter(s, values) ==
  [s EXCEPT !.has = TRUE, !.buf = values \o s.buf]

\* Reader.prototype.unshift
Unshift(s, values) ==
  [s EXCEPT !.has = TRUE, !.buf = SelectSeq(values, Kept) \o s.buf]

\* Reader.prototype.readByte
ReadByte(s) ==
  LET r == Read(s) IN
  IF r.done THEN [s |-> r.s, value |-> Undefined]
  ELSE [s |-> Unshift(r.s, <<SliceFrom(r.value, 1)>>), value |-> First(r.value)]

RECURSIVE ReadBytesLoop(_, _, _, _)
\* The loop of readBytes, from the state of its locals.
ReadBytesLoop(s, buffer, bufferLength, length) ==
  LET r == Read(s) IN
  IF r.done
  THEN [s |-> r.s, value |-> IF Len(buffer) > 0 THEN Concat(buffer) ELSE Undefined]
  ELSE LET buffer2 == Append(buffer, r.value)
           bufferLength2 == bufferLength + Length(r.value)
       IN IF bufferLength2 >= length
          THEN LET bufferConcat == Concat(buffer2) IN
               [s |-> Unshift(r.s, <<SliceFrom(bufferConcat, length)>>),
                value |-> Slice(bufferConcat, 0, length)]
          ELSE ReadBytesLoop(r.s, buffer2, bufferLength2, length)

\* readBytes() that counts one unit too many.
ReadBytes_OneMore(s, length) == ReadBytesLoop(s, <<>>, 0, length + 1)

\* Reader.prototype.readBytes
ReadBytes(s, length) == ReadBytesLoop(s, <<>>, 0, length)

\* Reader.prototype.peekBytes
PeekBytes(s, length) ==
  LET r == ReadBytes(s, length) IN
  [s |-> Unshift(r.s, <<r.value>>), value |-> r.value]

RECURSIVE ReadLineLoop(_, _)
\* The loop of readLine, from the state of its local buffer.
ReadLineLoop(s, buffer) ==
  LET r == Read(s) IN
  IF r.done
  THEN [s |-> r.s, value |-> IF Len(buffer) > 0 THEN Concat(buffer) ELSE Undefined]
  ELSE LET value == ToText(r.value)
           s2 == [r.s EXCEPT !.coerced = r.s.coerced \/ r.value.t # "str"]
           lineEndIndex == IndexOf(value.d, NewlineChar) + 1
       IN IF lineEndIndex # 0
          THEN [s |-> Unshift(s2, IF lineEndIndex # Length(value)
                                  THEN <<SliceFrom(value, lineEndIndex)>>
                                  ELSE <<>>),
                value |-> Concat(Append(buffer, Slice(value, 0, lineEndIndex)))]
          ELSE ReadLineLoop(s2, IF lineEndIndex # Length(value)
                                THEN Append(buffer, SliceFrom(value, lineEndIndex))
                                ELSE buffer)

RECURSIVE ReadLineLoop_NoUnshift(_, _)
\* readLine() without its closing this.unshift(...buffer): what follows the
\* newline in its chunk is dropped.
ReadLineLoop_NoUnshift(s, buffer) ==
  LET r == Read(s) IN
  IF r.done
  THEN [s |-> r.s, value |-> IF Len(buffer) > 0 THEN Concat(buffer) ELSE Undefined]
  ELSE LET value == ToText(r.value)
           lineEndIndex == IndexOf(value.d, NewlineChar) + 1
       IN IF lineEndIndex # 0
          THEN [s |-> Unshift(r.s, <<>>),
                value |-> Concat(Append(buffer, Slice(value, 0, lineEndIndex)))]
          ELSE ReadLineLoop_NoUnshift(r.s, IF lineEndIndex # Length(value)
                                           THEN Append(buffer, value)
                                           ELSE buffer)

ReadLine_NoUnshift(s) == ReadLineLoop_NoUnshift(s, <<>>)

\* Reader.prototype.readLine
ReadLine(s) == ReadLineLoop(s, <<>>)

----------------------------------------------------------------------------
\* The inputs: a web stream of strings or of typed arrays, a node stream of
\* strings, a single string, a single typed array. A stream delivers
\* non-empty chunks; a single value may be empty. The bytes of a typed array
\* are 10, 11, ... by position: no operation but the string form looks at a
\* byte's value, and distinct bytes show a lost, repeated or displaced unit.

UnitSeqs(t) ==
  IF t = "str" THEN UNION {[1..n -> TextAlphabet] : n \in 0..MaxUnits}
  ELSE {[i \in 1..n |-> 9 + i] : n \in 0..MaxUnits}

RECURSIVE Chunkings(_, _)
\* The ways to cut d into non-empty chunks of type t.
Chunkings(d, t) ==
  IF d = <<>> THEN {<<>>}
  ELSE UNION {{<<[t |-> t, d |-> SubSeq(d, 1, k)]>> \o rest :
                 rest \in Chunkings(SubSeq(d, k + 1, Len(d)), t)} : k \in 1..Len(d)}

Streams(t) == UNION {Chunkings(d, t) : d \in UnitSeqs(t)}

Inputs ==
  {[kind |-> "web", t |-> "str", chunks |-> c] : c \in Streams("str")}
  \cup {[kind |-> "web", t |-> "u8", chunks |-> c] : c \in Streams("u8")}
  \cup {[kind |-> "node", t |-> "str", chunks |-> c] : c \in Streams("str")}
  \cup {[kind |-> "value", t |-> "str", chunks |-> <<Str(d)>>] : d \in UnitSeqs("str")}
  \cup {[kind |-> "value", t |-> "u8", chunks |-> <<U8(d)>>] : d \in UnitSeqs("u8")}

\* The lengths readBytes and peekBytes are asked for.
Lengths == 0..(MaxUnits + 1)

\* The chunk a caller pushes onto a Reader it has released.
StaleChunk == [t |-> input.t, d |-> <<97>>]

----------------------------------------------------------------------------
\* No read() result: the reader has no settled read().
NoRes == [value |-> Undefined, done |-> FALSE, rej |-> FALSE]

\* No cancel() has run to its end.
NoCancel == [resumed |-> FALSE, nPause |-> 0, cancelFwd |-> 0, locked |-> FALSE,
             closed |-> FALSE, errored |-> FALSE, cancelling |-> FALSE,
             res |-> "none"]

\* The adapters before anything was made of them.
BridgeInit ==
  /\ errored = FALSE
  /\ closeReq = FALSE
  /\ pc = "none"
  /\ res = NoRes
  /\ destroyed = FALSE
  /\ reading = FALSE
  /\ cancelling = FALSE
  /\ loopsStarted = 0
  /\ loopsFinished = 0
  /\ cancelQ = <<>>
  /\ cancelCalls = 0
  /\ dbuf = <<>>
  /\ nPull = 0
  /\ nResume = 0
  /\ enq = 0
  /\ cancelFwd = 0
  /\ late = FALSE
  /\ pushed = <<>>
  /\ nEnd = 0
  /\ nErr = 0
  /\ pushThrew = FALSE
  /\ stopped = "none"
  /\ relPending = FALSE
  /\ cancelsDone = 0
  /\ cancelRes = "none"
  /\ firstCancel = NoCancel

\* The state after new Reader(input).

Init ==
  /\ input \in Inputs
  /\ rdBuf = NoBuf
  /\ doneReading = FALSE
  /\ src = IF input.kind = "value" THEN <<>> ELSE input.chunks
  /\ queue = <<>>
  /\ resumed = (input.kind = "node")
  /\ closed = FALSE
  /\ ended = FALSE
  /\ doneReadingSet = FALSE
  /\ inputBuf = NoBuf
  /\ shared = FALSE
  /\ phase = "active"
  /\ readers = 1
  /\ lastOp = "new"
  /\ lastArg = 0
  /\ lastRes = Undefined
  /\ lastPulls = 0
  /\ lastC = <<>>
  /\ got = <<>>
  /\ consumed = <<>>
  /\ coerced = FALSE
  /\ staleUsed = 0
  /\ threw = FALSE
  /\ exhausted = FALSE
  /\ relSnap = NoBuf
  /\ afterEvent = FALSE
  /\ BridgeInit
  /\ started = (input.kind = "node")
  /\ hasCancel = FALSE
  /\ locked = (input.kind # "value")
  /\ nPause = 0

\* What an operation of the current Reader leaves behind: r = [s, value].
Done(op, arg, r) ==
  /\ phase = "active"
  /\ ~r.s.blocked
  /\ rdBuf' = [has |-> r.s.has, buf |-> r.s.buf]
  /\ doneReading' = r.s.doneReading
  /\ src' = r.s.src
  /\ queue' = r.s.queue
  /\ resumed' = r.s.resumed
  /\ closed' = r.s.closed
  /\ ended' = r.s.ended
  /\ coerced' = r.s.coerced
  /\ lastOp' = op
  /\ lastArg' = arg
  /\ lastRes' = r.value
  /\ lastPulls' = r.s.pulls
  /\ afterEvent' = FALSE
  /\ UNCHANGED <<input, doneReadingSet, inputBuf, shared, phase, readers,
                 staleUsed, threw, exhausted, relSnap>>
  /\ UNCHANGED <<bridge, bridgeHist>>

\* await reader.read()
DoRead ==
  LET r == Read(State) IN
  /\ Done("read", 0, r)
  /\ got' = IF r.done THEN got ELSE Append(got, r.value)
  /\ consumed' = consumed \o r.value.d
  /\ lastC' = <<>>

\* await reader.readByte()
DoReadByte ==
  LET r == ReadByte(State) IN
  /\ Done("readByte", 0, r)
  /\ got' = <<>>
  /\ consumed' = consumed \o r.value.d
  /\ lastC' = <<>>

\* await reader.readBytes(n)
DoReadBytes ==
  \E n \in Lengths :
    LET r == ReadBytes(State, n) IN
    /\ Done("readBytes", n, r)
    /\ got' = <<>>
    /\ consumed' = consumed \o r.value.d
    /\ lastC' = <<>>

\* await reader.peekBytes(n)
DoPeekBytes ==
  \E n \in Lengths :
    LET r == PeekBytes(State, n) IN
    /\ Done("peekBytes", n, r)
    /\ got' = <<>>
    /\ lastC' = <<>>
    /\ UNCHANGED consumed

\* await reader.readLine()
DoReadLine ==
  LET r == ReadLine(State) IN
  /\ Done("readLine", 0, r)
  /\ got' = <<>>
  /\ consumed' = consumed \o r.value.d
  /\ lastC' = <<>>

\* reader.unshift(...C), C the chunks of the last k consecutive read() calls.
DoUnshift ==
  \E k \in 1..Len(got) :
    LET C == SubSeq(got, Len(got) - k + 1, Len(got)) IN
    /\ Done("unshift", k, [s |-> Unshift(State, C), value |-> Undefined])
    /\ got' = <<>>
    /\ consumed' = SubSeq(consumed, 1, Len(consumed) - Len(Flat(C)))
    /\ lastC' = C

\* reader.releaseLock(). The module is strict code: giving a property to a
\* primitive string throws a TypeError, before this._releaseLock() is reached.
\* A single value's _releaseLock adds an input that was read to
\* doneReadingSet; a WeakSet refuses a primitive, which the catch swallows.
Release ==
  /\ phase = "active"
  /\ LET raises == rdBuf.has /\ IsPrimitive IN
     /\ threw' = (threw \/ raises)
     /\ inputBuf' = IF rdBuf.has /\ ~IsPrimitive THEN rdBuf ELSE inputBuf
     /\ shared' = (rdBuf.has /\ ~IsPrimitive)
     /\ doneReadingSet' =
          (doneReadingSet
             \/ (~raises /\ input.kind = "value" /\ doneReading /\ ~IsPrimitive))
  /\ phase' = "released"
  /\ exhausted' = (input.kind = "value" /\ doneReading /\ rdBuf.buf = <<>>)
  /\ relSnap' = rdBuf
  /\ lastOp' = "releaseLock"
  /\ lastArg' = 0
  /\ lastRes' = Undefined
  /\ lastPulls' = 0
  /\ lastC' = <<>>
  /\ got' = <<>>
  /\ afterEvent' = FALSE
  /\ UNCHANGED <<input, rdBuf, doneReading, src, queue, resumed, closed, ended,
                 readers, consumed, coerced, staleUsed>>
  /\ UNCHANGED <<bridge, bridgeHist>>

\* new Reader(input), after the Reader before it was released. Over a node
\* stream this makes a new ReadableStream (nodeToWeb): start() pauses the node
\* stream and adds listeners, and the empty queue has pull() resume it.
NewReader ==
  /\ phase = "released"
  /\ readers < MaxReaders
  /\ rdBuf' = IF inputBuf.has THEN [has |-> TRUE, buf |-> inputBuf.buf] ELSE NoBuf
  /\ shared' = FALSE
  /\ doneReading' = FALSE
  /\ queue' = <<>>
  /\ closed' = FALSE
  /\ resumed' = (input.kind = "node" /\ ~ended)
  /\ phase' = "active"
  /\ readers' = readers + 1
  /\ lastOp' = "new"
  /\ lastArg' = 0
  /\ lastRes' = Undefined
  /\ lastPulls' = 0
  /\ lastC' = <<>>
  /\ got' = <<>>
  /\ afterEvent' = FALSE
  /\ UNCHANGED <<input, src, ended, doneReadingSet, inputBuf, consumed, coerced,
                 staleUsed, threw, exhausted, relSnap>>
  /\ UNCHANGED <<bridge, bridgeHist>>

\* What a call on the released Reader leaves behind: its array is the one
\* releaseLock() gave to the input, when it gave one.
Stale(op, buf) ==
  /\ phase = "released"
  /\ staleUsed < MaxStale
  /\ rdBuf' = [has |-> TRUE, buf |-> buf]
  /\ inputBuf' = IF shared THEN [has |-> TRUE, buf |-> buf] ELSE inputBuf
  /\ staleUsed' = staleUsed + 1
  /\ lastOp' = op
  /\ lastArg' = 0
  /\ lastPulls' = 0
  /\ lastC' = <<>>
  /\ got' = <<>>
  /\ afterEvent' = FALSE
  /\ UNCHANGED <<input, doneReading, src, queue, resumed, closed, ended,
                 doneReadingSet, shared, phase, readers, consumed, coerced,
                 threw, exhausted, relSnap>>
  /\ UNCHANGED <<bridge, bridgeHist>>

\* released.unshift(chunk)
StaleUnshift ==
  /\ Stale("staleUnshift", Unshift(State, <<StaleChunk>>).buf)
  /\ lastRes' = Undefined

\* await released.read(), served from its buffer
StaleRead ==
  /\ rdBuf.has /\ Len(rdBuf.buf) > 0
  /\ Stale("staleRead", Read(State).s.buf)
  /\ lastRes' = Read(State).value

\* The resumed node stream emits: 'data' (enqueue the chunk, pause) or, with
\* nothing left, 'end' (close).
NodeEmit ==
  /\ input.kind = "node"
  /\ resumed
  /\ ~ended
  /\ IF src # <<>>
     THEN /\ queue' = Append(queue, Head(src))
          /\ src' = Tail(src)
          /\ UNCHANGED <<closed, ended>>
     ELSE /\ closed' = TRUE
          /\ ended' = TRUE
          /\ UNCHANGED <<queue, src>>
  /\ resumed' = FALSE
  /\ afterEvent' = TRUE
  /\ UNCHANGED <<input, rdBuf, doneReading, doneReadingSet, inputBuf, shared,
                 phase, readers, lastOp, lastArg, lastRes, lastPulls, lastC,
                 got, consumed, coerced, staleUsed, threw, exhausted, relSnap>>
  /\ UNCHANGED <<bridge, bridgeHist>>

\* One Reader and what its caller does with it while it holds the lock.
Next ==
  \/ DoRead
  \/ DoReadByte
  \/ DoReadBytes
  \/ DoPeekBytes
  \/ DoReadLine
  \/ DoUnshift
  \/ NodeEmit

Spec == Init /\ [][Next]_vars

\* Readers in succession over one input, each released before the next is
\* made, each reading chunk by chunk or unit by unit.
NextChain ==
  \/ DoRead
  \/ DoReadByte
  \/ Release
  \/ NewReader
  \/ StaleUnshift
  \/ StaleRead
  \/ NodeEmit

SpecChain == Init /\ [][NextChain]_vars

----------------------------------------------------------------------------
\* The chain of the two adapters, webToNode(nodeToWeb(input)): the node stream
\* input, the ReadableStream nodeToWeb makes of it, the reader NodeReadable
\* takes on that stream, and the consumer of the NodeReadable.

\* The node streams the chain is made over: the adapters never look into a
\* chunk, so each chunk holds one character.
BridgeInputs ==
  {x \in Inputs : /\ x.kind = "node"
                  /\ \A i \in 1..Len(x.chunks) : Length(x.chunks[i]) = 1}

\* The results of a read(): a chunk, the end, a rejection.
ChunkRes(chunk) == [value |-> chunk, done |-> FALSE, rej |-> FALSE]
DoneRes == [value |-> Undefined, done |-> TRUE, rej |-> FALSE]
RejRes == [value |-> Undefined, done |-> FALSE, rej |-> TRUE]

\* The state nodeToWeb and its ReadableStream work on.
Web ==
  [queue |-> queue, resumed |-> resumed, closed |-> closed, errored |-> errored,
   closeReq |-> closeReq, started |-> started, pc |-> pc, res |-> res,
   nPull |-> nPull, nResume |-> nResume, nPause |-> nPause, enq |-> enq,
   cancelFwd |-> cancelFwd, late |-> late]

\* nodeStream.pause() and nodeStream.resume()
pause(w) == [w EXCEPT !.resumed = FALSE, !.nPause = @ + 1]
resume(w) == [w EXCEPT !.resumed = TRUE, !.nResume = @ + 1]

\* pull() of nodeToWeb
pull(w) == resume(w)

\* The ReadableStream calls pull() once started, while it is readable and not
\* closing, when a read() is pending or its queue is below the high water mark.
ShouldCallPull(w) ==
  /\ w.started
  /\ ~w.closed /\ ~w.errored /\ ~w.closeReq
  /\ (w.pc = "await" \/ Len(w.queue) < StreamHighWaterMark)

CallPullIfNeeded(w) ==
  IF ShouldCallPull(w) THEN pull([w EXCEPT !.nPull = @ + 1, !.enq = 0]) ELSE w

\* The controller takes enqueue() and close() on a readable stream that was
\* not asked to close; otherwise they throw a TypeError.
CanCloseOrEnqueue(w) == ~w.closed /\ ~w.errored /\ ~w.closeReq

\* The stream is closed (by 'end' or by cancel) or errored.
Terminal(w) == w.closed \/ w.errored

\* controller.enqueue(chunk): to the pending read(), or into the queue.
Enqueue(w, chunk) ==
  CallPullIfNeeded(
    IF w.pc = "await"
    THEN [w EXCEPT !.pc = "got", !.res = ChunkRes(chunk), !.enq = @ + 1]
    ELSE [w EXCEPT !.queue = Append(@, chunk), !.enq = @ + 1])

\* The 'data' handler without its nodeStream.pause().
onData_NoPause(w, chunk) ==
  IF CanCloseOrEnqueue(w) THEN Enqueue(w, chunk)
  ELSE [w EXCEPT !.late = @ \/ Terminal(w)]

\* The 'data' handler of nodeToWeb; when enqueue throws, pause() is not reached.
onData(w, chunk) ==
  IF CanCloseOrEnqueue(w) THEN pause(Enqueue(w, chunk))
  ELSE [w EXCEPT !.late = @ \/ Terminal(w)]

\* The stream closes: a pending read() resolves with done.
Close(w) ==
  [w EXCEPT !.closed = TRUE,
            !.pc = IF @ = "await" THEN "got" ELSE @,
            !.res = IF w.pc = "await" THEN DoneRes ELSE @]

\* The 'end' handler of nodeToWeb: controller.close().
onEnd(w) ==
  IF ~CanCloseOrEnqueue(w) THEN [w EXCEPT !.late = @ \/ Terminal(w)]
  ELSE IF w.queue # <<>> THEN [w EXCEPT !.closeReq = TRUE]
  ELSE Close(w)

\* The 'error' handler of nodeToWeb: controller.error(e), which a closed or
\* errored stream ignores.
onError(w) ==
  IF Terminal(w) THEN [w EXCEPT !.late = TRUE]
  ELSE [w EXCEPT !.errored = TRUE, !.queue = <<>>,
                 !.pc = IF @ = "await" THEN "got" ELSE @,
                 !.res = IF w.pc = "await" THEN RejRes ELSE @]

\* this._reader.read(): the head of the queue, the end of a closed stream, the
\* error of an errored one, or a pending read().
ReaderRead(w) ==
  IF w.queue # <<>>
  THEN LET d == [w EXCEPT !.queue = Tail(@), !.pc = "got",
                          !.res = ChunkRes(Head(w.queue))]
       IN IF d.closeReq /\ d.queue = <<>> THEN [d EXCEPT !.closed = TRUE]
          ELSE CallPullIfNeeded(d)
  ELSE IF w.closed THEN [w EXCEPT !.pc = "got", !.res = DoneRes]
  ELSE IF w.errored THEN [w EXCEPT !.pc = "got", !.res = RejRes]
  ELSE CallPullIfNeeded([w EXCEPT !.pc = "await"])

\* cancel(reason) of nodeToWeb
cancel(w) ==
  LET p == pause(w) IN
  IF hasCancel THEN [p EXCEPT !.cancelFwd = @ + 1] ELSE p

\* webStream.cancel(reason) that calls the source's cancel whatever the
\* stream's state.
StreamCancel_Always(w, lock) ==
  IF lock THEN [w |-> w, res |-> "rejected"]
  ELSE [w |-> cancel([w EXCEPT !.closed = TRUE, !.queue = <<>>]),
        res |-> "resolved"]

\* this._webStream.cancel(reason): refused on a locked stream, nothing on a
\* closed one, the stored error on an errored one; otherwise the stream closes
\* and the source's cancel is called.
StreamCancel(w, lock) ==
  IF lock THEN [w |-> w, res |-> "rejected"]
  ELSE IF w.closed THEN [w |-> w, res |-> "resolved"]
  ELSE IF w.errored THEN [w |-> w, res |-> "rejected"]
  ELSE [w |-> cancel([w EXCEPT !.closed = TRUE, !.queue = <<>>]),
        res |-> "resolved"]

\* The state NodeReadable works on.
Node ==
  [reading |-> reading, loopsFinished |-> loopsFinished, dbuf |-> dbuf,
   pushed |-> pushed, nEnd |-> nEnd, nErr |-> nErr, stopped |-> stopped,
   w |-> Web]

\* this.push(value) returned true: the consumer's buffer is below its mark.
Accepts(b) == Len(b) < HighWaterMark

\* The catch of doRead with this._reading = false added to it.
Catch_Reset(n) ==
  [n EXCEPT !.nErr = @ + 1, !.loopsFinished = @ + 1, !.stopped = "error",
            !.reading = FALSE]

\* The catch of doRead: this.emit('error', e), and the loop returns.
Catch(n) ==
  [n EXCEPT !.nErr = @ + 1, !.loopsFinished = @ + 1, !.stopped = "error"]

\* The end of the source with this._reading = false added to it.
Finish_Reset(n) ==
  [n EXCEPT !.nEnd = @ + 1, !.loopsFinished = @ + 1, !.stopped = "done",
            !.reading = FALSE]

\* done: this.push(null), and the loop returns.
Finish(n) ==
  [n EXCEPT !.nEnd = @ + 1, !.loopsFinished = @ + 1, !.stopped = "done"]

\* The test that ends the loop, without this.push()'s answer.
MustStop_NoSaturation(b) == cancelling

\* !this.push(value) || this._cancelling
MustStop(b) == ~Accepts(b) \/ cancelling

\* doRead from the point where its await this._reader.read() has settled:
\* pushOk says whether this.push(value) returns or throws.
doRead(n, pushOk) ==
  LET r == n.w.res
      m == [n EXCEPT !.w.pc = "none", !.w.res = NoRes]
  IN IF r.rej THEN Catch(m)
     ELSE IF r.done THEN Finish(m)
     ELSE IF ~pushOk THEN Catch(m)
     ELSE LET p == [m EXCEPT !.dbuf = Append(@, r.value),
                             !.pushed = Append(@, r.value)]
          IN IF MustStop(p.dbuf)
             THEN [p EXCEPT !.reading = FALSE, !.loopsFinished = @ + 1,
                            !.stopped = IF Accepts(p.dbuf) THEN "cancel"
                                        ELSE "saturated"]
             ELSE [p EXCEPT !.w = ReaderRead(p.w)]

\* The test of _read without this._reading.
ReadGuard_NoReading == cancelling

\* this._reading || this._cancelling: _read returns at once.
ReadGuard == reading \/ cancelling

\* The promise cancel() awaits, as a loop number, when it does not wait for
\* the loop in flight: one that has settled.
Awaited_None == loopsFinished

\* this._doneReadingPromise, as the number of the loop it belongs to (0: the
\* promise the constructor made).
Awaited == loopsStarted

\* What the node stream has received and the adapters show to their users.
Observable ==
  [resumed |-> resumed, nPause |-> nPause, cancelFwd |-> cancelFwd,
   locked |-> locked, closed |-> closed, errored |-> errored,
   cancelling |-> cancelling, res |-> cancelRes]

\* The variables of the Reader, which the chain leaves alone.
readerOnly == <<rdBuf, doneReading, doneReadingSet, inputBuf, shared, phase,
                readers, hist>>

SetWeb(w) ==
  /\ queue' = w.queue
  /\ resumed' = w.resumed
  /\ closed' = w.closed
  /\ errored' = w.errored
  /\ closeReq' = w.closeReq
  /\ started' = w.started
  /\ pc' = w.pc
  /\ res' = w.res
  /\ nPull' = w.nPull
  /\ nResume' = w.nResume
  /\ nPause' = w.nPause
  /\ enq' = w.enq
  /\ cancelFwd' = w.cancelFwd
  /\ late' = w.late

SetNode(n) ==
  /\ reading' = n.reading
  /\ loopsFinished' = n.loopsFinished
  /\ dbuf' = n.dbuf
  /\ pushed' = n.pushed
  /\ nEnd' = n.nEnd
  /\ nErr' = n.nErr
  /\ stopped' = n.stopped
  /\ SetWeb(n.w)

\* The state after webToNode(nodeToWeb(input)): start() has paused the node
\* stream and added its listeners, the reader holds the stream's lock.
InitBridge ==
  /\ input \in BridgeInputs
  /\ src = input.chunks
  /\ queue = <<>>
  /\ resumed = FALSE
  /\ closed = FALSE
  /\ ended = FALSE
  /\ BridgeInit
  /\ started = FALSE
  /\ hasCancel \in BOOLEAN
  /\ locked = TRUE
  /\ nPause = 1
  /\ rdBuf = NoBuf
  /\ doneReading = FALSE
  /\ doneReadingSet = FALSE
  /\ inputBuf = NoBuf
  /\ shared = FALSE
  /\ phase = "active"
  /\ readers = 1
  /\ lastOp = "new"
  /\ lastArg = 0
  /\ lastRes = Undefined
  /\ lastPulls = 0
  /\ lastC = <<>>
  /\ got = <<>>
  /\ consumed = <<>>
  /\ coerced = FALSE
  /\ staleUsed = 0
  /\ threw = FALSE
  /\ exhausted = FALSE
  /\ relSnap = NoBuf
  /\ afterEvent = FALSE

\* start() has settled: the stream calls pull() for its empty queue.
Started ==
  /\ ~started
  /\ SetNode([Node EXCEPT !.w = CallPullIfNeeded([Web EXCEPT !.started = TRUE])])
  /\ UNCHANGED <<input, src, ended, readerOnly, hasCancel, destroyed, cancelling,
                 loopsStarted, cancelQ, cancelCalls, locked, pushThrew,
                 relPending, cancelsDone, cancelRes, firstCancel>>

\* The node stream emits 'data': it is flowing and has a chunk.
EmitData ==
  /\ resumed
  /\ ~destroyed
  /\ src # <<>>
  /\ SetNode([Node EXCEPT !.w = onData(Web, Head(src))])
  /\ src' = Tail(src)
  /\ UNCHANGED <<input, ended, readerOnly, hasCancel, destroyed, cancelling,
                 loopsStarted, cancelQ, cancelCalls, locked, pushThrew,
                 relPending, cancelsDone, cancelRes, firstCancel>>

\* The node stream emits 'end': all its chunks were read, and it was resumed
\* since (resume() reads for the end even when pause() follows it at once).
EmitEnd ==
  /\ nResume > 0
  /\ ~destroyed
  /\ ~ended
  /\ src = <<>>
  /\ SetNode([Node EXCEPT !.w = onEnd(Web)])
  /\ ended' = TRUE
  /\ UNCHANGED <<input, src, readerOnly, hasCancel, destroyed, cancelling,
                 loopsStarted, cancelQ, cancelCalls, locked, pushThrew,
                 relPending, cancelsDone, cancelRes, firstCancel>>

\* The node stream emits 'error', once, and nothing after it.
EmitError ==
  /\ ~destroyed
  /\ SetNode([Node EXCEPT !.w = onError(Web)])
  /\ destroyed' = TRUE
  /\ UNCHANGED <<input, src, ended, readerOnly, hasCancel, cancelling,
                 loopsStarted, cancelQ, cancelCalls, locked, pushThrew,
                 relPending, cancelsDone, cancelRes, firstCancel>>

\* NodeReadable.prototype._read: a solicited read. It starts doRead, which
\* runs to its first await.
NodeReadable_read ==
  /\ IF ReadGuard
     THEN /\ SetNode(Node)
          /\ UNCHANGED loopsStarted
     ELSE /\ SetNode([Node EXCEPT !.reading = TRUE, !.stopped = "none",
                                  !.w = ReaderRead(Web)])
          /\ loopsStarted' = loopsStarted + 1
  /\ UNCHANGED <<input, src, ended, readerOnly, hasCancel, destroyed, cancelling,
                 cancelQ, cancelCalls, locked, pushThrew, relPending,
                 cancelsDone, cancelRes, firstCancel>>

\* doRead goes on after its await: it pushes what the read() resolved to, and
\* reads again or returns. A push() throws at most once.
DoReadStep ==
  /\ pc = "got"
  /\ \E pushOk \in {TRUE} \cup (IF pushThrew \/ res.rej \/ res.done
                                THEN {} ELSE {FALSE}) :
       /\ SetNode(doRead(Node, pushOk))
       /\ pushThrew' = (pushThrew \/ ~pushOk)
  /\ UNCHANGED <<input, src, ended, readerOnly, hasCancel, destroyed, cancelling,
                 loopsStarted, cancelQ, cancelCalls, locked, relPending,
                 cancelsDone, cancelRes, firstCancel>>

\* The consumer of the NodeReadable takes a chunk.
Consume ==
  /\ dbuf # <<>>
  /\ SetNode([Node EXCEPT !.dbuf = Tail(@)])
  /\ UNCHANGED <<input, src, ended, readerOnly, hasCancel, destroyed, cancelling,
                 loopsStarted, cancelQ, cancelCalls, locked, pushThrew,
                 relPending, cancelsDone, cancelRes, firstCancel>>

\* NodeReadable.prototype.cancel, to its await.
NodeReadable_cancel ==
  /\ cancelCalls < MaxCancels
  /\ cancelCalls' = cancelCalls + 1
  /\ cancelling' = TRUE
  /\ cancelQ' = Append(cancelQ, Awaited)
  /\ SetNode(Node)
  /\ UNCHANGED <<input, src, ended, readerOnly, hasCancel, destroyed,
                 loopsStarted, locked, pushThrew, relPending, cancelsDone,
                 cancelRes, firstCancel>>

\* cancel() goes on after its await, the loop it waited for having returned:
\* this._reader.releaseLock(), which rejects a read() still pending, then
\* this._webStream.cancel(reason).
CancelStep ==
  /\ cancelQ # <<>>
  /\ Head(cancelQ) <= loopsFinished
  /\ LET released == IF locked /\ pc = "await"
                     THEN [Web EXCEPT !.pc = "got", !.res = RejRes]
                     ELSE Web
         c == StreamCancel(released, FALSE)
     IN /\ SetNode([Node EXCEPT !.w = c.w])
        /\ cancelRes' = c.res
        /\ relPending' = (relPending \/ (locked /\ pc = "await"))
  /\ locked' = FALSE
  /\ cancelQ' = Tail(cancelQ)
  /\ cancelsDone' = cancelsDone + 1
  /\ UNCHANGED <<input, src, ended, readerOnly, hasCancel, destroyed, cancelling,
                 loopsStarted, cancelCalls, pushThrew>>
  /\ firstCancel' = IF cancelsDone = 0 THEN Observable' ELSE firstCancel

NextBridge ==
  \/ Started
  \/ EmitData
  \/ EmitEnd
  \/ EmitError
  \/ NodeReadable_read
  \/ DoReadStep
  \/ Consume
  \/ NodeReadable_cancel
  \/ CancelStep

SpecBridge == InitBridge /\ [][NextBridge]_vars

----------------------------------------------------------------------------
\* What is left to read, as the program's state holds it.

\* The chunks the source has still to deliver to the current Reader.
SourceChunks ==
  CASE input.kind = "value" ->
         IF doneReading \/ doneReadingSet THEN <<>> ELSE input.chunks
    [] input.kind = "web" -> src
    [] input.kind = "node" -> queue \o src

\* The push-back buffer followed by the unread source.
Pending == rdBuf.buf \o SourceChunks

IsPrefix(a, b) == Len(a) <= Len(b) /\ a = SubSeq(b, 1, Len(a))

\* A step of the named Reader operation (an event of the node stream leaves
\* lastOp as it was).
IsOp(op) == lastOp' = op /\ ~afterEvent'

----------------------------------------------------------------------------
\* C1. Between the operations of one Reader, the units returned and not
\* pushed back, then the push-back buffer, then the unread source, are the
\* input's content: nothing is lost, repeated or reordered.
C1_Accounting ==
  consumed \o Flat(Pending) = Flat(input.chunks)

\* C1, amended: the same, as long as readLine has not been given a byte
\* chunk (which it returns as the text of its decimal string form).
C1_AccountingText ==
  ~coerced => consumed \o Flat(Pending) = Flat(input.chunks)

\* C1: after a push-back, with units returned, buffered and unread.
C1_Witness ==
  /\ lastOp = "unshift"
  /\ ~coerced
  /\ consumed # <<>>
  /\ rdBuf.buf # <<>>
  /\ SourceChunks # <<>>

\* C2. A second Reader over a single value that the first has read to the end
\* and released gets done = true from its first read().
C2_SecondReaderDone ==
  [][(/\ lastOp = "new" /\ readers = 2 /\ exhausted /\ staleUsed = 0
      /\ input.kind = "value"
      /\ IsOp("read"))
     => lastRes' = Undefined]_vars

\* C3. Whatever the Readers of a chain have read, in order, is a prefix of the
\* input's content: no chunk lost, none delivered twice.
C3_ExactlyOnce ==
  staleUsed = 0 => IsPrefix(consumed, Flat(input.chunks))

\* C4. releaseLock() never throws.
C4_NeverRaises ==
  ~threw

\* C5. A Reader made after a release starts with the chunks that were
\* buffered at the release, whatever was done to the released Reader since.
C5_InheritsSnapshot ==
  (lastOp = "new" /\ readers > 1 /\ ~IsPrimitive /\ relSnap.buf # <<>>)
    => rdBuf.buf = relSnap.buf

\* C6. readBytes(n) right after peekBytes(n) returns what the peek returned.
C6_PeekThenRead ==
  [][(lastOp = "peekBytes" /\ IsOp("readBytes") /\ lastArg' = lastArg)
     => lastRes' = lastRes]_vars

\* C7. After unshift(...C) of chunks C just read, readBytes(totalLength(C))
\* returns concat(C) and leaves what was left before the unshift.
C7_RoundTrip ==
  [][(lastOp = "unshift" /\ IsOp("readBytes") /\ lastArg' = Len(Flat(lastC)))
     => /\ lastRes' = Concat(lastC)
        /\ Pending' = SubSeq(Pending, Len(lastC) + 1, Len(Pending))]_vars

\* How many chunks of p readBytes(n) takes: the fewest, and at least one,
\* that hold n units.
Taken(p, n) ==
  CHOOSE k \in 1..Len(p) :
    /\ Len(Flat(SubSeq(p, 1, k))) >= n
    /\ \A j \in 1..(k - 1) : Len(Flat(SubSeq(p, 1, j))) < n

\* C8. With L units left, readBytes(n) returns the first min(n, L) of them;
\* it returns nothing only when L = 0; when L >= n what it took beyond n goes
\* back as one chunk; when L < n nothing is left.
C8_ReadBytes ==
  [][IsOp("readBytes") =>
       LET n == lastArg'
           c == Flat(Pending)
           L == Len(c)
           r == lastRes'
       IN /\ r = Undefined => L = 0
          /\ L > 0 => r # Undefined
          /\ r # Undefined => r = [t |-> input.t, d |-> SubSeq(c, 1, Min(n, L))]
          /\ (L > 0 /\ L >= n) =>
               LET k == Taken(Pending, n)
                   rest == SubSeq(Flat(SubSeq(Pending, 1, k)), n + 1,
                                  Len(Flat(SubSeq(Pending, 1, k))))
               IN Pending' = (IF rest = <<>> THEN <<>>
                              ELSE <<[t |-> input.t, d |-> rest]>>)
                             \o SubSeq(Pending, k + 1, Len(Pending))
          /\ L < n => Pending' = <<>>]_vars

\* C8: readBytes has returned units of two chunks and pushed the rest back.
C8_Witness ==
  /\ lastOp = "readBytes"
  /\ lastArg = 2
  /\ Length(lastRes) = 2
  /\ lastPulls = 2
  /\ Len(rdBuf.buf) = 1

\* C9. On text, readLine returns what is left up to and with its first
\* newline and leaves the rest; without a newline it returns all that is left,
\* and nothing when nothing is left.
C9_ReadLine ==
  [][(IsOp("readLine") /\ input.t = "str") =>
       LET c == Flat(Pending)
           i == IndexOf(c, NewlineChar) + 1
       IN IF i > 0
          THEN /\ lastRes' = Str(SubSeq(c, 1, i))
               /\ Flat(Pending') = SubSeq(c, i + 1, Len(c))
          ELSE /\ lastRes' = (IF c = <<>> THEN Undefined ELSE Str(c))
               /\ Flat(Pending') = <<>>]_vars

\* C9: readLine has joined two chunks up to a newline and pushed the rest back.
C9_Witness ==
  /\ lastOp = "readLine"
  /\ input.t = "str"
  /\ lastPulls = 2
  /\ Length(lastRes) = 2
  /\ rdBuf.buf # <<>>

\* C10. With a chunk in the push-back buffer, read() returns the first one,
\* removes it alone and leaves the source untouched; it calls this._read only
\* with the buffer empty.
C10_BufferFirst ==
  [][IsOp("read") =>
       IF Len(rdBuf.buf) > 0
       THEN /\ lastRes' = Head(rdBuf.buf)
            /\ rdBuf'.buf = Tail(rdBuf.buf)
            /\ lastPulls' = 0
            /\ UNCHANGED <<src, queue, resumed, closed, ended, doneReading>>
       ELSE lastPulls' = 1]_vars

\* C10: read() has returned a buffered chunk, with more buffered and unread.
C10_Witness ==
  /\ lastOp = "read"
  /\ lastPulls = 0
  /\ lastRes # Undefined
  /\ rdBuf.buf # <<>>
  /\ SourceChunks # <<>>

\* C15. Every result of read() is a PullResult: with done = true the chunk is
\* absent, with done = false it is present and not empty.
C15_PullResult ==
  [][IsOp("read") =>
       LET r == Read(State) IN
       /\ lastRes' = r.value
       /\ r.done => r.value = Undefined
       /\ ~r.done => (r.value # Undefined /\ Len(r.value.d) > 0)]_vars

\* A chunk that is present and not empty.
NonEmptyChunk(v) == v # Undefined /\ Len(v.d) > 0

\* C16. unshift(c1, ..., ck) puts its non-empty arguments, in their order,
\* before the chunks already buffered and drops the others; the push-back
\* buffer never holds an empty or absent chunk.
C16_Unshift ==
  [][/\ \A i \in 1..Len(rdBuf'.buf) : NonEmptyChunk(rdBuf'.buf[i])
     /\ IsOp("unshift") =>
          rdBuf'.buf = SelectSeq(lastC', NonEmptyChunk) \o rdBuf.buf]_vars

\* C16: unshift has put a chunk before two buffered ones.
C16_Witness ==
  /\ lastOp = "unshift"
  /\ Len(lastC) = 1
  /\ Len(rdBuf.buf) = 3
  /\ Head(rdBuf.buf) = lastC[1]

\* C11. nodeToWeb leaves the node stream paused at start and after every
\* 'data' event, and resumes it only in pull(): there are never more resume()
\* calls than pull() calls, and between two pull() calls at most one chunk is
\* enqueued.
C11_Backpressure ==
  [][/\ ~started' => ~resumed'
     /\ src' # src => ~resumed'
     /\ (resumed' /\ ~resumed) => nPull' > nPull
     /\ nResume' > nResume => nPull' > nPull
     /\ nResume' <= nPull'
     /\ enq' <= 1]_vars

\* C11: a chunk was enqueued with no read() pending, after the second pull(),
\* and the node stream is paused.
C11_Witness ==
  /\ nPull >= 2
  /\ enq = 1
  /\ queue # <<>>
  /\ ~resumed
  /\ pushed # <<>>

\* C20. Once the ReadableStream is closed (by 'end' or by cancel) or errored,
\* no handler of nodeToWeb calls enqueue, close or error on its controller.
C20_NoLateCall ==
  ~late

LoopsInFlight == loopsStarted - loopsFinished

\* C13. cancel() sets _cancelling, waits for the doRead loop in flight, then
\* releases the reader's lock, then cancels the ReadableStream: the lock is
\* never released with a read() of the loop pending or a loop in flight, the
\* stream is cancelled only with the lock released, and no loop starts once
\* _cancelling is set.
C13_CancelOrder ==
  [][/\ ~relPending'
     /\ cancelCalls' > 0 => cancelling'
     /\ ~locked' => (cancelling' /\ LoopsInFlight' = 0 /\ pc' = "none")
     /\ cancelsDone' > 0 => ~locked'
     /\ (cancelsDone' > 0 /\ ~errored') => (closed' /\ cancelRes' = "resolved")
     /\ nPause' > nPause /\ src' = src => (locked /\ ~locked')
     /\ loopsStarted' > loopsStarted => ~cancelling]_vars

\* C13: cancel() was called with a read() of the loop pending; the loop
\* pushed the chunk and returned, and then the lock was released and the
\* stream cancelled.
C13_Witness ==
  /\ stopped = "cancel"
  /\ cancelsDone = 1
  /\ ~locked
  /\ closed
  /\ nEnd = 0

\* C14. A solicited read that finds no loop and no cancellation starts a
\* doRead loop, which reads; the loop pushes the chunks in the order of the
\* source; after a push it reads again when the consumer accepts and no
\* cancellation is in progress, and otherwise returns without another read;
\* after a return for saturation the next solicited read starts a loop.
C14_Drain ==
  [][/\ IsPrefix(pushed', input.chunks)
     /\ loopsStarted' > loopsStarted =>
          (~reading /\ ~cancelling /\ reading' /\ pc' # "none")
     /\ Len(pushed') > Len(pushed) =>
          IF Accepts(dbuf') /\ ~cancelling
          THEN pc' # "none" /\ LoopsInFlight' = 1
          ELSE pc' = "none" /\ LoopsInFlight' = 0 /\ nPull' = nPull
     /\ (stopped' = "saturated" /\ LoopsInFlight' = 0 /\ ~cancelling')
          => ~reading']_vars

\* C14: a loop has returned for saturation, and a second loop, started by a
\* later solicited read, has pushed the chunk after.
C14_Witness ==
  /\ loopsStarted = 2
  /\ Len(pushed) = HighWaterMark + 1
  /\ pushed = input.chunks
  /\ ~cancelling

\* C17. A rejected read() and a throwing push() end in one 'error' event
\* downstream; after it the NodeReadable starts no loop, issues no read() and
\* pushes nothing, whatever solicited reads follow.
C17_ErrorEvent ==
  [][/\ (pc = "got" /\ res.rej /\ pc' # pc) => nErr' = nErr + 1
     /\ pushThrew' # pushThrew => nErr' = nErr + 1
     /\ nErr' <= 1
     /\ nErr' > 0 => (pc' = "none" /\ LoopsInFlight' = 0)
     /\ nErr > 0 => UNCHANGED <<pushed, nEnd, loopsStarted, pc>>]_vars

\* C17: a read() was rejected after a chunk was pushed, and a solicited read
\* could follow.
C17_Witness ==
  /\ nErr = 1
  /\ errored
  /\ ~pushThrew
  /\ pushed # <<>>
  /\ ~cancelling

\* C18. When a read() reports done the NodeReadable calls push(null), once,
\* with every chunk of the source pushed before it, in order; after it the
\* NodeReadable starts no loop, issues no read() and pushes nothing.
C18_EndOnce ==
  [][/\ (pc = "got" /\ res.done /\ pc' # pc) => nEnd' = nEnd + 1
     /\ nEnd' <= 1
     /\ nEnd' > nEnd => pushed' = input.chunks
     /\ nEnd' > 0 => (pc' = "none" /\ LoopsInFlight' = 0)
     /\ nEnd > 0 => UNCHANGED <<pushed, nEnd, loopsStarted, pc>>]_vars

\* C18: push(null) was called by a second loop, after three chunks.
C18_Witness ==
  /\ nEnd = 1
  /\ loopsStarted >= 2
  /\ Len(pushed) = 3
  /\ ~cancelling

\* C19. At most one doRead loop is in flight: a read() of the reader is
\* pending or settled only for that loop, and while it is in flight _reading
\* is set, so that no solicited read starts another.
C19_OneLoop ==
  /\ LoopsInFlight \in {0, 1}
  /\ LoopsInFlight = 1 => reading
  /\ pc # "none" => LoopsInFlight = 1
  /\ \A i \in 1..Len(cancelQ) : cancelQ[i] = loopsStarted

\* C19: the second loop is in flight with its read() pending, and a cancel()
\* waits for it.
C19_Witness ==
  /\ loopsStarted = 2
  /\ LoopsInFlight = 1
  /\ pc = "await"
  /\ cancelQ # <<>>

====
